---- MODULE Spec2Model ----
(***************************************************************************)
(* Model of the typesaurus admin helpers (src/src/helpers/index.ts):       *)
(* the data marshaller (unwrapData / wrapData), the path utilities         *)
(* (getRefPath / pathToRef), the query compiler (RichCollection.query) and *)
(* the collection handle's CRUD operations over a Firestore store, and the *)
(* list reads all() / query() with their fetch and subscription paths.     *)
(*                                                                         *)
(* JavaScript values are tagged records, the tag t being the value's       *)
(* runtime type.  Paths and ids that go through the path regular           *)
(* expression are sequences of one-character strings; field names are      *)
(* strings.                                                                *)
(***************************************************************************)
EXTENDS Integers, Sequences, FiniteSets, TLC

VARIABLES
    path, ref,                          \* pathToRef: argument, result
    domainValue, storeValue, decoded,   \* marshaller: x, encode(x), decode(encode(x))
    queries, firestoreQuery, cursors,   \* query: directives, compiled query, pending cursors
    store, written, call,               \* collection handle: store content, ghost, last call
    result, listeners, deliveries       \* list read: its result, the store's listeners, callbacks made

pathVars    == <<path, ref>>
marshalVars == <<domainValue, storeValue, decoded>>
queryVars   == <<queries, firestoreQuery, cursors>>
crudVars    == <<store, written, call>>
listVars    == <<result, listeners, deliveries>>
vars        == <<path, ref, domainValue, storeValue, decoded,
                 queries, firestoreQuery, cursors, store, written, call,
                 result, listeners, deliveries>>

-----------------------------------------------------------------------------
(* Bounds *)

MaxPathLen  == 4     \* longest path string handed to pathToRef
MaxArrayLen == 2     \* longest array among the marshalled values
MaxDirectives == 2   \* longest directive list handed to query
MaxIds      == 2     \* longest id list handed to getMany
MaxChanges  == 2     \* changes of the collection during a list read
MaxFailures == 1     \* failures the store reports during a list read

-----------------------------------------------------------------------------
(* JavaScript values *)

Undefined == [t |-> "undefined"]
Null      == [t |-> "null"]
Number(n) == [t |-> "number", n |-> n]
Text(s)   == [t |-> "string", s |-> s]
JSDate(ms) == [t |-> "Date", ms |-> ms]
Arr(items) == [t |-> "array", items |-> items]
Obj(fields) == [t |-> "object", fields |-> fields]
Fn(ret)   == [t |-> "function", ret |-> ret]
EmptyFields == [k \in {} |-> Null]

\* an exception leaving the function
Throw(error) == [t |-> "throw", error |-> error]
\* the function has not been called (yet)
NotCalled == [t |-> "notCalled"]

IsThrow(v) == v.t = "throw"

\* no call has been made on the collection handle
NoError == [t |-> "none"]
NoCall ==
    [op |-> "none", id |-> <<>>, ids |-> <<>>, arg |-> Undefined,
     outcome |-> "none", error |-> NoError, value |-> Undefined,
     sent |-> NotCalled, trips |-> 0]

\* no list read yet: no result, and no callback made
NoResult ==
    [source |-> "none", fetch |-> "idle", value |-> NotCalled, resolutions |-> 0,
     subscribed |-> FALSE, off |-> "none", cancelled |-> FALSE]
NoDeliveries ==
    [onResult |-> 0, last |-> NotCalled, onError |-> 0, changes |-> 0, failures |-> 0]

\* typeof data === 'object' && data (null is falsy)
IsObjectLike(v) == v.t \in {"object", "array", "Date", "ref", "value", "doc",
                            "Timestamp", "DocumentReference", "FieldValue"}

\* the members of a container, at any depth (the value itself included)
RECURSIVE Parts(_)
Parts(v) ==
    {v} \cup
    CASE v.t = "array"  -> UNION {Parts(v.items[i]) : i \in 1..Len(v.items)}
      [] v.t = "object" -> UNION {Parts(v.fields[k]) : k \in DOMAIN v.fields}
      [] OTHER -> {}

\* characters the regular expression's . does not match
LineTerminators == {"\n"}
Separator == "/"
Alphabet == {"u", "4", Separator, "\n"}

RichCollection(collectionPath) == [path |-> collectionPath]
Ref(collection, id) == [t |-> "ref", collection |-> collection, id |-> id]
Doc(collection, id, data) ==
    [t |-> "doc", collection |-> collection, ref |-> Ref(collection, id),
     data |-> data, environment |-> "server"]

\* firestore.Timestamp, firestore.DocumentReference
Timestamp(seconds, nanoseconds) ==
    [t |-> "Timestamp", seconds |-> seconds, nanoseconds |-> nanoseconds]
DocumentReference(p) == [t |-> "DocumentReference", path |-> p]

\* Timestamp.fromDate(date) and timestamp.toDate()
TimestampFromDate(date) ==
    Timestamp(date.ms \div 1000, (date.ms % 1000) * 1000000)
\* variant: the nanoseconds are dropped
TimestampToDate_WholeSeconds(ts) == JSDate(ts.seconds * 1000)

TimestampToDate(ts) == JSDate(ts.seconds * 1000 + ts.nanoseconds \div 1000000)

-----------------------------------------------------------------------------
(* Path utilities *)

getRefPath(r) == r.collection.path \o <<Separator>> \o r.id

refToFirestoreDocument(r) == DocumentReference(getRefPath(r))

\* positions of a / the expression /^(.+)\/(.+)$/ can match at: something
\* before it, something after it, and no line terminator anywhere
SplitPoints(p) ==
    {i \in 2..(Len(p) - 1) :
        /\ p[i] = Separator
        /\ \A j \in 1..Len(p) : p[j] \notin LineTerminators}

Greatest(S) == CHOOSE i \in S : \A j \in S : j <= i

\* variant: a lazy first group, which ends at the first separator
pathToRef_FirstSeparator(p) ==
    IF SplitPoints(p) = {}
    THEN Throw("Can't parse path")
    ELSE LET i == CHOOSE k \in SplitPoints(p) : \A j \in SplitPoints(p) : k <= j
         IN  Ref(RichCollection(SubSeq(p, 1, i - 1)), SubSeq(p, i + 1, Len(p)))

\* the first group is greedy: it ends at the last separator that matches
pathToRef(p) ==
    IF SplitPoints(p) = {}
    THEN Throw("Can't parse path")
    ELSE LET i == Greatest(SplitPoints(p))
         IN  Ref(RichCollection(SubSeq(p, 1, i - 1)), SubSeq(p, i + 1, Len(p)))

-----------------------------------------------------------------------------
(* Marshaller *)

FieldValue(op) == [t |-> "FieldValue", op |-> op]
FieldValueNumber(op, n) == [t |-> "FieldValue", op |-> op, number |-> n]
FieldValueElements(op, elements) ==
    [t |-> "FieldValue", op |-> op, elements |-> elements]

RECURSIVE unwrapData(_)
unwrapData(data) ==
    IF IsObjectLike(data)
    THEN CASE data.t = "ref" -> refToFirestoreDocument(data)
           [] data.t = "value" ->
               (CASE data.kind = "remove" -> FieldValue("delete")
                  [] data.kind = "increment" ->
                        FieldValueNumber("increment", data.number)
                  [] data.kind = "arrayUnion" ->
                        FieldValueElements("arrayUnion",
                            unwrapData(Arr(data.values)).items)
                  [] data.kind = "arrayRemove" ->
                        FieldValueElements("arrayRemove",
                            unwrapData(Arr(data.values)).items)
                  [] data.kind = "serverDate" -> FieldValue("serverTimestamp"))
           [] data.t = "Date" -> TimestampFromDate(data)
           [] data.t = "array" ->
                Arr([i \in 1..Len(data.items) |-> unwrapData(data.items[i])])
           [] data.t = "object" ->
                Obj([k \in DOMAIN data.fields |-> unwrapData(data.fields[k])])
           [] OTHER -> data
    ELSE IF data = Undefined THEN Null
    ELSE data

RECURSIVE wrapData(_)
wrapData(data) ==
    CASE data.t = "DocumentReference" -> pathToRef(data.path)
      [] data.t = "Timestamp" -> TimestampToDate(data)
      [] data.t = "array" ->
            LET items == [i \in 1..Len(data.items) |-> wrapData(data.items[i])]
            IN  IF \E i \in 1..Len(items) : IsThrow(items[i])
                THEN Throw("Can't parse path")
                ELSE Arr(items)
      [] data.t = "object" ->
            LET fields == [k \in DOMAIN data.fields |-> wrapData(data.fields[k])]
            IN  IF \E k \in DOMAIN fields : IsThrow(fields[k])
                THEN Throw("Can't parse path")
                ELSE Obj(fields)
      [] OTHER -> data

-----------------------------------------------------------------------------
(* Idle values of the variables a specification does not use *)

PathIdle    == path = <<>> /\ ref = NotCalled
MarshalIdle == domainValue = Undefined /\ storeValue = NotCalled /\ decoded = NotCalled
QueryIdle   == queries = <<>> /\ firestoreQuery = NotCalled /\ cursors = <<>>
CrudIdle    == store = EmptyFields /\ written = EmptyFields /\ call = NoCall
ListIdle    == result = NoResult /\ listeners = 0 /\ deliveries = NoDeliveries

-----------------------------------------------------------------------------
(* Path parsing: pathToRef applied to every short string *)

Paths == UNION {[1..n -> Alphabet] : n \in 0..MaxPathLen}

PathInit ==
    /\ path \in Paths
    /\ ref = NotCalled
    /\ MarshalIdle /\ QueryIdle /\ CrudIdle /\ ListIdle

PathToRef ==
    /\ ref = NotCalled
    /\ ref' = pathToRef(path)
    /\ UNCHANGED <<path, marshalVars, queryVars, crudVars, listVars>>

GetRefPath ==
    /\ ref.t = "ref"
    /\ path' = getRefPath(ref)
    /\ ref' = NotCalled
    /\ UNCHANGED <<marshalVars, queryVars, crudVars, listVars>>

PathNext == PathToRef \/ GetRefPath

SpecPath == PathInit /\ [][PathNext]_vars

Separators(p) == {i \in 1..Len(p) : p[i] = Separator}

-----------------------------------------------------------------------------
(* Marshaller round trip: wrapData(unwrapData(x)) for the domain values x *)

Keys == {"a", "b"}
DateMs == {-1, 1500}
RefCollectionPaths == {<<"u">>, <<"u", "/", "4", "/", "u">>}
RefIds == {<<"4">>, <<"4", "/", "4">>, <<>>, <<"\n">>}

Scalars == {Undefined, Null, Number(7), Text("x")}
Dates   == {JSDate(ms) : ms \in DateMs}
Refs    == {Ref(RichCollection(p), i) : p \in RefCollectionPaths, i \in RefIds}
Leaves  == Scalars \cup Dates \cup Refs

ArraysOf(S)  == {Arr(s) : s \in UNION {[1..n -> S] : n \in 0..MaxArrayLen}}
ObjectsOf(S) == {Obj(f) : f \in UNION {[K -> S] : K \in SUBSET Keys}}
Flat == Leaves \cup ArraysOf(Leaves) \cup ObjectsOf(Leaves)
DomainValues ==
    Flat \cup {Arr(<<v>>) : v \in Flat} \cup {Obj([k \in {"a"} |-> v]) : v \in Flat}

MarshalInit ==
    /\ domainValue \in DomainValues
    /\ storeValue = NotCalled
    /\ decoded = NotCalled
    /\ PathIdle /\ QueryIdle /\ CrudIdle /\ ListIdle

UnwrapData ==
    /\ storeValue = NotCalled
    /\ storeValue' = unwrapData(domainValue)
    /\ UNCHANGED <<domainValue, decoded, pathVars, queryVars, crudVars, listVars>>

WrapData ==
    /\ storeValue # NotCalled
    /\ decoded = NotCalled
    /\ decoded' = wrapData(storeValue)
    /\ UNCHANGED <<domainValue, storeValue, pathVars, queryVars, crudVars, listVars>>

MarshalNext == UnwrapData \/ WrapData

SpecMarshal == MarshalInit /\ [][MarshalNext]_vars

\* a Reference a store path can carry back: both parts non-empty, no line
\* terminator in either, no separator in the id
PlainRef(r) ==
    /\ r.id # <<>>
    /\ r.collection.path # <<>>
    /\ \A j \in 1..Len(r.id) : r.id[j] \notin LineTerminators \cup {Separator}
    /\ \A j \in 1..Len(r.collection.path) :
            r.collection.path[j] \notin LineTerminators

\* C9 as stated: decode(encode(x)) is structurally equal to x for every x.
C9_RoundTrip ==
    decoded # NotCalled => decoded = domainValue

\* C9, amended: decode(encode(x)) is structurally equal to x for every x that
\* holds no undefined (encode rewrites undefined to null) and whose References
\* have a non-empty collectionPath and a non-empty id without separator (no
\* line terminator in either).
C9_RoundTripDefined ==
    (/\ decoded # NotCalled
     /\ \A v \in Parts(domainValue) :
            /\ v # Undefined
            /\ v.t = "ref" => PlainRef(v))
        => decoded = domainValue

\* an object holding a Date and a Reference of a nested collection came back
C9_Witness ==
    /\ decoded = domainValue
    /\ domainValue.t = "object"
    /\ DOMAIN domainValue.fields = {"a", "b"}
    /\ domainValue.fields["a"] = JSDate(1500)
    /\ domainValue.fields["b"].t = "ref"
    /\ Len(domainValue.fields["b"].collection.path) > 1

-----------------------------------------------------------------------------
(* Query builder: the helpers build the directives, query compiles them *)

\* the docId sentinel, an instance of class DocId
docId == [t |-> "DocId"]
\* admin.firestore.FieldPath.documentId()
FieldPathDocumentId == [t |-> "FieldPath", documentId |-> TRUE]

CursorPositions == {"startAt", "startAfter", "endAt", "endBefore"}

\* queryHelpers: where, limit, startAt / startAfter / endAt / endBefore
where(field, filter, value) ==
    [type |-> "where", field |-> field, filter |-> filter, value |-> value]

limit(number) == [type |-> "limit", number |-> number]

cursor(position, value) ==
    [t |-> "object", type |-> "cursor", position |-> position, value |-> value]

\* queryHelpers.order(field, ...args)
order(field, args) ==
    [type |-> "order",
     field |-> field,
     method |-> IF Len(args) > 0 /\ args[1].t = "string" THEN args[1].s ELSE "asc",
     cursors |-> IF Len(args) > 1 THEN Arr(SubSeq(args, 2, Len(args)))
                 ELSE IF Len(args) > 0 /\ IsObjectLike(args[1]) THEN Arr(args)
                 ELSE Undefined]

\* Array.prototype.join over strings
RECURSIVE join(_, _)
join(items, sep) ==
    IF Len(items) = 0 THEN ""
    ELSE IF Len(items) = 1 THEN items[1].s
    ELSE items[1].s \o sep \o join(Tail(items), sep)

\* field.toString(): a string is itself, an array joins with a comma
toString(field) ==
    CASE field.t = "string" -> field.s
      [] field.t = "array"  -> join(field.items, ",")
      [] OTHER              -> "[object Object]"

\* variant: the placeholder is not recognised, the field is always a name
orderField_NoSubstitution(field) == Text(toString(field))

\* order case: the first argument of orderBy
orderField(field) ==
    IF field = docId THEN FieldPathDocumentId ELSE Text(toString(field))

\* where case: the first argument of where
whereField(field) ==
    LET fieldName == IF field.t = "array" THEN Text(join(field.items, "."))
                     ELSE field
    IN  IF fieldName = docId THEN FieldPathDocumentId ELSE fieldName

\* value.data[field]: undefined when the data has no such property
Property(data, field) ==
    IF data.t = "object" /\ toString(field) \in DOMAIN data.fields
    THEN data.fields[toString(field)]
    ELSE Undefined

\* order case: the value of a cursor attached to an order on field
cursorValue(field, value) ==
    IF value.t = "doc"
    THEN IF field = docId THEN [t |-> "string", chars |-> value.ref.id]
         ELSE Property(value.data, field)
    ELSE value

\* order case: the cursors an order directive adds to the pending list
orderCursors(query) ==
    IF query.cursors = Undefined THEN <<>>
    ELSE [i \in 1..Len(query.cursors.items) |->
            [type     |-> query.cursors.items[i].type,
             position |-> query.cursors.items[i].position,
             value    |-> cursorValue(query.field, query.cursors.items[i].value)]]

\* one pass of queries.forEach: the call applied to the accumulator
directiveCall(query) ==
    CASE query.type = "order" ->
            [m |-> "orderBy", field |-> orderField(query.field),
             method |-> query.method]
      [] query.type = "where" ->
            [m |-> "where", field |-> whereField(query.field),
             filter |-> query.filter, value |-> unwrapData(query.value)]
      [] query.type = "limit" ->
            [m |-> "limit", number |-> query.number]

RECURSIVE pendingCursors(_)
pendingCursors(qs) ==
    IF qs = <<>> THEN <<>>
    ELSE (IF Head(qs).type = "order" THEN orderCursors(Head(qs)) ELSE <<>>)
            \o pendingCursors(Tail(qs))

\* variant: every cursor becomes a call of its own
RECURSIVE groupedCursors_Ungrouped(_)
groupedCursors_Ungrouped(cs) ==
    IF cs = <<>> THEN <<>>
    ELSE <<[m |-> Head(cs).position, args |-> <<unwrapData(Head(cs).value)>>]>>
            \o groupedCursors_Ungrouped(Tail(cs))

\* cursors.forEach: one entry per position, in the order the positions first
\* appear, holding the encoded values of that position in cursor order
RECURSIVE groupedCursors(_)
groupedCursors(cs) ==
    IF cs = <<>> THEN <<>>
    ELSE LET before == groupedCursors(SubSeq(cs, 1, Len(cs) - 1))
             last   == cs[Len(cs)]
             found  == {i \in 1..Len(before) : before[i].m = last.position}
         IN  IF found = {}
             THEN Append(before,
                    [m |-> last.position, args |-> <<unwrapData(last.value)>>])
             ELSE [i \in 1..Len(before) |->
                    IF i \in found
                    THEN [before[i] EXCEPT !.args = Append(@, unwrapData(last.value))]
                    ELSE before[i]]

\* variant: one defined cursor is enough
cursorsDefined_Some(cs) ==
    \E i \in 1..Len(cs) : cs[i].value # Undefined

\* cursors.length && cursors.every((cursor) => cursor.value !== undefined)
cursorsDefined(cs) ==
    /\ Len(cs) > 0
    /\ \A i \in 1..Len(cs) : cs[i].value # Undefined

\* RichCollection.query up to the SubscriptionPromise: the calls made on the
\* accumulator query, in order
query(qs) ==
    [i \in 1..Len(qs) |-> directiveCall(qs[i])]
        \o (IF cursorsDefined(pendingCursors(qs))
            THEN groupedCursors(pendingCursors(qs))
            ELSE <<>>)

Collection == RichCollection(<<"u">>)
CursorDoc == Doc(Collection, <<"4">>, Obj([k \in {"name"} |-> Number(5)]))

Fields == {docId, Text("name"), Text("docId"), Arr(<<Text("a"), Text("b")>>)}
WhereValues == {Text("a"), JSDate(1500)}
CursorValues == {Undefined, Number(1), CursorDoc}
Cursors == {cursor(p, v) : p \in CursorPositions, v \in CursorValues}
Directions == {Text("asc"), Text("desc")}
\* order(field), order(field, method), order(field, cursor),
\* order(field, method, cursor), order(field, cursor, cursor),
\* order(field, method, cursor, cursor)
OrderArgs ==
    {<<>>} \cup {<<d>> : d \in Directions} \cup {<<c>> : c \in Cursors}
    \cup {<<Text("desc"), cursor(p, Number(1))>> : p \in {"startAt", "endBefore"}}
    \cup {<<cursor("startAt", Number(1)), cursor("endBefore", v)>> : v \in CursorValues}
    \cup {<<Text("desc"), cursor("startAt", Number(1)), cursor("endBefore", v)>> :
                v \in CursorValues}

QueryInit ==
    /\ queries = <<>>
    /\ firestoreQuery = NotCalled
    /\ cursors = <<>>
    /\ PathIdle /\ MarshalIdle /\ CrudIdle /\ ListIdle

Building == firestoreQuery = NotCalled /\ Len(queries) < MaxDirectives

AddWhere ==
    /\ Building
    /\ \E field \in Fields, value \in WhereValues :
            queries' = Append(queries, where(field, "==", value))
    /\ UNCHANGED <<firestoreQuery, cursors, pathVars, marshalVars, crudVars, listVars>>

AddOrder ==
    /\ Building
    /\ \E field \in Fields, args \in OrderArgs :
            queries' = Append(queries, order(field, args))
    /\ UNCHANGED <<firestoreQuery, cursors, pathVars, marshalVars, crudVars, listVars>>

AddLimit ==
    /\ Building
    /\ queries' = Append(queries, limit(2))
    /\ UNCHANGED <<firestoreQuery, cursors, pathVars, marshalVars, crudVars, listVars>>

Query ==
    /\ firestoreQuery = NotCalled
    /\ firestoreQuery' = Arr(query(queries))
    /\ cursors' = pendingCursors(queries)
    /\ UNCHANGED <<queries, pathVars, marshalVars, crudVars, listVars>>

QueryNext == AddWhere \/ AddOrder \/ AddLimit \/ Query

SpecQuery == QueryInit /\ [][QueryNext]_vars

Compiled == firestoreQuery # NotCalled
Calls == firestoreQuery.items
CursorCalls == {i \in 1..Len(Calls) : Calls[i].m \in CursorPositions}

\* the call a directive compiles to
CallOf == [order |-> "orderBy", where |-> "where", limit |-> "limit"]

\* C4: the cursor methods are applied exactly when the pending cursor list is
\* non-empty and every cursor in it has a defined resolved value; one
\* undefined cursor leaves no cursor method of any position applied, and the
\* where / order / limit directives are applied all the same.
C4_AllOrNothing ==
    Compiled =>
        /\ (\E i \in 1..Len(cursors) : cursors[i].value = Undefined)
                => CursorCalls = {}
        /\ (cursors # <<>> /\ \A i \in 1..Len(cursors) : cursors[i].value # Undefined)
                => \A i \in 1..Len(cursors) :
                        \E j \in CursorCalls : Calls[j].m = cursors[i].position
        /\ Len(Calls) >= Len(queries)
        /\ \A i \in 1..Len(queries) : Calls[i].m = CallOf[queries[i].type]

\* a where and an order with one defined cursor and one that a document
\* without the ordered field resolves to undefined: the where and the order
\* are compiled, no cursor method is
C4_Witness ==
    /\ Compiled
    /\ Len(queries) = 2
    /\ queries[1].type = "where"
    /\ queries[2].type = "order"
    /\ queries[2].cursors # Undefined
    /\ Len(queries[2].cursors.items) = 2
    /\ queries[2].cursors.items[2].value = CursorDoc
    /\ Len(cursors) = 2
    /\ cursors[1].value = Number(1)
    /\ cursors[2].value = Undefined
    /\ Len(Calls) = 2

\* the encoded values of the pending cursors of one position, in list order
RECURSIVE ValuesAt(_, _)
ValuesAt(cs, position) ==
    IF cs = <<>> THEN <<>>
    ELSE (IF Head(cs).position = position
          THEN <<unwrapData(Head(cs).value)>> ELSE <<>>)
            \o ValuesAt(Tail(cs), position)

Grouped ==
    \A i \in 1..Len(cursors) :
        /\ Cardinality({j \in CursorCalls : Calls[j].m = cursors[i].position}) = 1
        /\ \A j \in CursorCalls :
                Calls[j].m = cursors[i].position =>
                    /\ Calls[j].args = ValuesAt(cursors, cursors[i].position)
                    /\ \A k \in 1..Len(Calls) : Calls[k].m = "orderBy" => k < j

\* C5 as stated: for any directive sequence, the cursors of one position
\* compile into exactly one application of that cursor method, holding their
\* encoded values in declared order, after all orderBy calls.
C5_OneCallPerPosition == Compiled => Grouped

\* C5, amended: for any directive sequence whose pending cursors all resolve
\* to a defined value, the cursors of one position compile into exactly one
\* application of that cursor method, holding their encoded values in
\* declared order, after all orderBy calls.
C5_OneCallPerPositionDefined ==
    (Compiled /\ \A i \in 1..Len(cursors) : cursors[i].value # Undefined)
        => Grouped

\* two order directives, each with a startAt cursor: one startAt call with
\* the two values in declared order, after both orderBy calls
C5_Witness ==
    /\ Compiled
    /\ Len(queries) = 2
    /\ queries[1] = order(docId, <<cursor("startAt", CursorDoc)>>)
    /\ queries[2] = order(Text("name"), <<cursor("startAt", Number(1))>>)
    /\ Len(Calls) = 3
    /\ Calls[3] = [m |-> "startAt",
                   args |-> <<[t |-> "string", chars |-> <<"4">>], Number(1)>>]

\* C10: a where or an order directive on the document-id placeholder compiles
\* to a call on the store's native id selector, never on a field named docId;
\* a directive on any other field never uses the id selector.
C10_DocIdSubstitution ==
    Compiled =>
        \A i \in 1..Len(queries) :
            queries[i].type \in {"where", "order"} =>
                /\ Calls[i].field = FieldPathDocumentId <=> queries[i].field = docId
                /\ queries[i].field = docId => Calls[i].field # Text("docId")

\* an order on the placeholder and a where on a data field named docId
C10_Witness ==
    /\ Compiled
    /\ Len(queries) = 2
    /\ queries[1].type = "order" /\ queries[1].field = docId
    /\ queries[2].type = "where" /\ queries[2].field = Text("docId")
    /\ Calls[1].field = FieldPathDocumentId
    /\ Calls[2].field = Text("docId")

-----------------------------------------------------------------------------
(* The store: one Firestore collection, a map from document id to data *)

\* the field paths the writes use, and the dotted name of each
FieldPaths == {<<Text("name")>>, <<Text("at")>>, <<Text("b")>>,
               <<Text("b"), Text("c")>>}
\* the segments of a dotted field name (the store splits it at the dots)
Segments(key) == CHOOSE fp \in FieldPaths : join(fp, ".") = key

IsDelete(v) == v = FieldValue("delete") \/ (v.t = "value" /\ v.kind = "remove")

\* data with the field at a path of one or two segments set, or deleted
SetPath(data, fp, value) ==
    LET k == fp[1].s
    IN  IF Len(fp) = 1
        THEN IF IsDelete(value)
             THEN Obj([f \in DOMAIN data.fields \ {k} |-> data.fields[f]])
             ELSE Obj([f \in DOMAIN data.fields \cup {k} |->
                        IF f = k THEN value ELSE data.fields[f]])
        ELSE LET c == fp[2].s
                 old == IF k \in DOMAIN data.fields /\ data.fields[k].t = "object"
                        THEN data.fields[k].fields ELSE EmptyFields
                 new == IF IsDelete(value)
                        THEN [f \in DOMAIN old \ {c} |-> old[f]]
                        ELSE [f \in DOMAIN old \cup {c} |->
                                IF f = c THEN value ELSE old[f]]
             IN  Obj([f \in DOMAIN data.fields \cup {k} |->
                        IF f = k THEN Obj(new) ELSE data.fields[f]])

\* update semantics: every key of the update is a field path
RECURSIVE ApplyUpdate(_, _, _)
ApplyUpdate(data, update, keys) ==
    IF keys = {} THEN data
    ELSE LET k == CHOOSE x \in keys : TRUE
         IN  ApplyUpdate(SetPath(data, Segments(k), update.fields[k]),
                         update, keys \ {k})

\* set with merge: maps are merged field by field, a delete removes the field
RECURSIVE Merge(_, _)
Merge(old, new) ==
    LET kept == {f \in DOMAIN old.fields :
                    ~(f \in DOMAIN new.fields /\ IsDelete(new.fields[f]))}
        set  == {f \in DOMAIN new.fields : ~IsDelete(new.fields[f])}
    IN  Obj([f \in kept \cup set |->
                IF f \notin set THEN old.fields[f]
                ELSE IF f \in kept /\ old.fields[f].t = "object"
                        /\ new.fields[f].t = "object"
                     THEN Merge(old.fields[f], new.fields[f])
                     ELSE new.fields[f]])

Accepted(st) == [ok |-> TRUE, store |-> st, error |-> NoError]
Refused(st, error) == [ok |-> FALSE, store |-> st, error |-> Throw(error)]

\* collection.add(data) and doc.set(data): a plain object without deletes
firestoreAdd(st, id, data) ==
    IF data.t # "object" \/ \E v \in Parts(data) : IsDelete(v)
    THEN Refused(st, "invalid-argument")
    ELSE Accepted([i \in DOMAIN st \cup {id} |-> IF i = id THEN data ELSE st[i]])

firestoreSet(st, id, data) == firestoreAdd(st, id, data)

\* doc.set(data, {merge: true})
firestoreSetMerge(st, id, data) ==
    IF data.t # "object"
    THEN Refused(st, "invalid-argument")
    ELSE Accepted([i \in DOMAIN st \cup {id} |->
                    IF i = id
                    THEN Merge(IF id \in DOMAIN st THEN st[id] ELSE Obj(EmptyFields),
                               data)
                    ELSE st[i]])

\* doc.update(data): the document must exist, the update must name a field
firestoreUpdate(st, id, data) ==
    IF data.t # "object" \/ DOMAIN data.fields = {}
    THEN Refused(st, "invalid-argument")
    ELSE IF id \notin DOMAIN st
    THEN Refused(st, "not-found")
    ELSE Accepted([st EXCEPT ![id] = ApplyUpdate(st[id], data, DOMAIN data.fields)])

\* doc.delete()
firestoreDelete(st, id) == Accepted([i \in DOMAIN st \ {id} |-> st[i]])

\* a document snapshot
firestoreSnap(st, id) ==
    [id |-> id, exists |-> id \in DOMAIN st,
     data |-> IF id \in DOMAIN st THEN st[id] ELSE Undefined]

-----------------------------------------------------------------------------
(* Collection handle: the operations of RichCollection over the store *)

\* writeHelpers
writeHelpers_serverDate == [t |-> "value", kind |-> "serverDate"]
writeHelpers_remove == [t |-> "value", kind |-> "remove"]
writeHelpers_increment(number) ==
    [t |-> "value", kind |-> "increment", number |-> number]
writeHelpers_arrayUnion(values) ==
    [t |-> "value", kind |-> "arrayUnion", values |-> values]
writeHelpers_arrayRemove(values) ==
    [t |-> "value", kind |-> "arrayRemove", values |-> values]

\* what an operation leaves behind: how its promise settled, the argument it
\* handed to the store (NotCalled when it made no call), the store after it,
\* and the number of reads it made
Resolved(value, sent, st, trips) ==
    [outcome |-> "resolved", error |-> NoError, value |-> value, sent |-> sent,
     store |-> st, trips |-> trips]
Rejected(error, sent, st, trips) ==
    [outcome |-> "rejected", error |-> error, value |-> Undefined, sent |-> sent,
     store |-> st, trips |-> trips]
Settled(res, value, sent) ==
    IF res.ok THEN Resolved(value, sent, res.store, 0)
    ELSE Rejected(res.error, sent, res.store, 0)

\* typeof data === 'function' ? data(helpers) : data
Written(data) == IF data.t = "function" THEN data.ret ELSE data

add(st, newId, getData) ==
    LET sent == unwrapData(Written(getData))
    IN  Settled(firestoreAdd(st, newId, sent), Ref(Collection, newId), sent)

set(st, id, data) ==
    LET sent == unwrapData(data)
    IN  Settled(firestoreSet(st, id, sent), Undefined, sent)

upset(st, id, data) ==
    LET sent == unwrapData(Written(data))
    IN  Settled(firestoreSetMerge(st, id, sent), Undefined, sent)

Falsy(v) == v \in {Null, Undefined}

\* Array.isArray(key) ? key.join('.') : key
editKey(key) == IF key.t = "array" THEN join(key.items, ".") ELSE key.s

\* updateData.reduce((acc, field) => ..., {}): a falsy field returns
\* undefined, which is the accumulator of the next step
RECURSIVE reduceEdits(_, _)
reduceEdits(acc, fields) ==
    IF fields = <<>> \/ IsThrow(acc) THEN acc
    ELSE LET field == Head(fields)
         IN  IF Falsy(field) THEN reduceEdits(Undefined, Tail(fields))
             ELSE IF acc = Undefined
             THEN Throw("TypeError")
             ELSE reduceEdits(
                    Obj([k \in DOMAIN acc.fields \cup {editKey(field.key)} |->
                            IF k = editKey(field.key) THEN field.value
                            ELSE acc.fields[k]]),
                    Tail(fields))

update(st, id, data) ==
    LET updateData == Written(data)
        upd  == IF updateData.t = "array"
                THEN reduceEdits(Obj(EmptyFields), updateData.items)
                ELSE updateData
        sent == unwrapData(upd)
    IN  IF IsThrow(upd) THEN Rejected(upd, NotCalled, st, 0)
        ELSE Settled(firestoreUpdate(st, id, sent), Undefined, sent)

\* variant: the document is left in place
remove_KeepsDocument(st, id) == Resolved(Undefined, NotCalled, st, 0)

remove(st, id) == Settled(firestoreDelete(st, id), Undefined, NotCalled)

get(st, id) ==
    LET data == firestoreSnap(st, id).data
    IN  Resolved(IF data # Undefined THEN Doc(Collection, id, wrapData(data))
                 ELSE Null,
                 NotCalled, st, 1)

MissingDocument(id) ==
    [t |-> "throw", error |-> "Missing document with id", id |-> id]

\* defaultOnMissing
defaultOnMissing(id) == MissingDocument(id)

onMissingOf(options) == IF options = Undefined THEN Undefined ELSE options.onMissing

\* variant: a missing document is dropped whatever the policy
missingDoc_Dropped(options, id) == Null

\* getMany, a snapshot that does not exist: dropped, made up, or an error
missingDoc(options, id) ==
    IF onMissingOf(options) = Text("ignore") THEN Null
    ELSE IF onMissingOf(options) # Undefined
    THEN Doc(Collection, id, onMissingOf(options).map[id])
    ELSE defaultOnMissing(id)

\* getMany, the read of a non-empty list: one getAll, then the map and filter
getAll(st, ids, options) ==
    LET snaps == [i \in 1..Len(ids) |-> firestoreSnap(st, ids[i])]
        docs  == [i \in 1..Len(ids) |->
                    IF ~snaps[i].exists THEN missingDoc(options, snaps[i].id)
                    ELSE Doc(Collection, snaps[i].id, wrapData(snaps[i].data))]
        thrown == {i \in 1..Len(ids) : IsThrow(docs[i])}
    IN  IF thrown # {}
        THEN Rejected(docs[CHOOSE i \in thrown : \A j \in thrown : i <= j],
                      NotCalled, st, 1)
        ELSE Resolved(Arr(SelectSeq(docs, LAMBDA doc : doc # Null)),
                      NotCalled, st, 1)

\* variant: the empty list is read like any other
getMany_NoShortCircuit(st, ids, options) == getAll(st, ids, options)

getMany(st, ids, options) ==
    IF Len(ids) = 0 THEN Resolved(Arr(<<>>), NotCalled, st, 0)
    ELSE getAll(st, ids, options)

\* nullifyData
RECURSIVE nullifyData(_)
nullifyData(data) ==
    CASE data.t = "array" ->
            Arr([i \in 1..Len(data.items) |->
                    IF data.items[i] = Undefined THEN Null
                    ELSE nullifyData(data.items[i])])
      [] data.t = "object" ->
            Obj([k \in DOMAIN data.fields |->
                    IF data.fields[k] = Undefined THEN Null
                    ELSE nullifyData(data.fields[k])])
      [] OTHER -> data

-----------------------------------------------------------------------------
(* The calls made on one collection handle, one at a time *)

Ids == {<<"4">>, <<"u">>}

Ann == Obj([k \in {"name", "at"} |->
            IF k = "name" THEN Text("Ann") ELSE JSDate(1500)])
Nested == Obj([k \in {"name", "b"} |->
            IF k = "name" THEN Text("Ann") ELSE Obj([c \in {"c"} |-> Number(1)])])
NoName == Obj([k \in {"name"} |-> Undefined])
WriteArgs ==
    {Ann, Nested, NoName, Fn(Ann), Fn(Obj([k \in {"at"} |-> writeHelpers_remove]))}

edit(key, value) == [t |-> "object", key |-> key, value |-> value]
Name == edit(Text("name"), Text("Bo"))
BC == edit(Arr(<<Text("b"), Text("c")>>), Number(2))
\* edit lists: without a falsy entry, and with one first, last and in between
EditLists ==
    {<<>>, <<Name>>, <<Name, BC>>, <<Null>>, <<Name, Null>>, <<Null, BC>>,
     <<Name, Null, BC>>}
UpdateArgs ==
    {Obj([k \in {"name"} |-> Text("Bo")]),
     Fn(Obj([k \in {"b"} |-> writeHelpers_remove]))}
    \cup {Arr(es) : es \in EditLists}

Unknown == [i \in Ids |-> Obj([k \in {"name"} |-> Text("unknown")])]
OnMissingCallbacks ==
    {[t |-> "function", map |-> Unknown],
     [t |-> "function", map |-> [i \in Ids |-> Null]]}
GetManyOptions ==
    {Undefined}
    \cup {[onMissing |-> m] :
            m \in {Undefined, Text("ignore")} \cup OnMissingCallbacks}
IdLists == UNION {[1..n -> Ids] : n \in 0..MaxIds}

\* the ghost: what the completed writes made of each document, as domain data
Removed == [t |-> "removed"]
Live(w, id) == id \in DOMAIN w /\ w[id] # Removed
WrittenAt(w, id) == IF Live(w, id) THEN w[id] ELSE Obj(EmptyFields)
Put(w, id, data) == [i \in DOMAIN w \cup {id} |-> IF i = id THEN data ELSE w[i]]

RECURSIVE ApplyEdits(_, _)
ApplyEdits(data, fields) ==
    IF fields = <<>> THEN data
    ELSE IF Falsy(Head(fields)) THEN ApplyEdits(data, Tail(fields))
    ELSE ApplyEdits(
            SetPath(data,
                    IF Head(fields).key.t = "array" THEN Head(fields).key.items
                    ELSE Segments(Head(fields).key.s),
                    Head(fields).value),
            Tail(fields))

Updated(data, arg) ==
    IF Written(arg).t = "array" THEN ApplyEdits(data, Written(arg).items)
    ELSE ApplyUpdate(data, Written(arg), DOMAIN Written(arg).fields)

Called(op, id, ids, arg, res) ==
    [op |-> op, id |-> id, ids |-> ids, arg |-> arg,
     outcome |-> res.outcome, error |-> res.error, value |-> res.value,
     sent |-> res.sent, trips |-> res.trips]

Init ==
    /\ store = EmptyFields
    /\ written = EmptyFields
    /\ call = NoCall
    /\ PathIdle /\ MarshalIdle /\ QueryIdle /\ ListIdle

Add ==
    \E newId \in Ids \ DOMAIN store, data \in WriteArgs :
        LET res == add(store, newId, data)
        IN  /\ store' = res.store
            /\ call' = Called("add", newId, <<>>, data, res)
            /\ written' = IF res.outcome = "resolved"
                          THEN Put(written, newId, Written(data)) ELSE written
            /\ UNCHANGED <<pathVars, marshalVars, queryVars, listVars>>

Set ==
    \E id \in Ids, data \in WriteArgs :
        LET res == set(store, id, data)
        IN  /\ store' = res.store
            /\ call' = Called("set", id, <<>>, data, res)
            /\ written' = IF res.outcome = "resolved"
                          THEN Put(written, id, Written(data)) ELSE written
            /\ UNCHANGED <<pathVars, marshalVars, queryVars, listVars>>

Upset ==
    \E id \in Ids, data \in WriteArgs :
        LET res == upset(store, id, data)
        IN  /\ store' = res.store
            /\ call' = Called("upset", id, <<>>, data, res)
            /\ written' = IF res.outcome = "resolved"
                          THEN Put(written, id,
                                   Merge(WrittenAt(written, id), Written(data)))
                          ELSE written
            /\ UNCHANGED <<pathVars, marshalVars, queryVars, listVars>>

Update ==
    \E id \in Ids, data \in UpdateArgs :
        LET res == update(store, id, data)
        IN  /\ store' = res.store
            /\ call' = Called("update", id, <<>>, data, res)
            /\ written' = IF res.outcome = "resolved"
                          THEN Put(written, id,
                                   Updated(WrittenAt(written, id), data))
                          ELSE written
            /\ UNCHANGED <<pathVars, marshalVars, queryVars, listVars>>

Remove ==
    \E id \in Ids :
        LET res == remove(store, id)
        IN  /\ store' = res.store
            /\ call' = Called("remove", id, <<>>, Undefined, res)
            /\ written' = IF res.outcome = "resolved"
                          THEN Put(written, id, Removed) ELSE written
            /\ UNCHANGED <<pathVars, marshalVars, queryVars, listVars>>

Get ==
    \E id \in Ids :
        /\ call' = Called("get", id, <<>>, Undefined, get(store, id))
        /\ UNCHANGED <<store, written, pathVars, marshalVars, queryVars, listVars>>

GetMany ==
    \E ids \in IdLists, options \in GetManyOptions :
        /\ call' = Called("getMany", <<>>, ids, options, getMany(store, ids, options))
        /\ UNCHANGED <<store, written, pathVars, marshalVars, queryVars, listVars>>

Next == Add \/ Set \/ Upset \/ Update \/ Remove \/ Get

Spec == Init /\ [][Next]_vars

\* the map of the non-falsy entries of an edit list
RECURSIVE EditsMap(_)
EditsMap(fields) ==
    IF fields = <<>> THEN EmptyFields
    ELSE LET before == EditsMap(SubSeq(fields, 1, Len(fields) - 1))
             field  == fields[Len(fields)]
         IN  IF Falsy(field) THEN before
             ELSE [k \in DOMAIN before \cup {editKey(field.key)} |->
                    IF k = editKey(field.key) THEN field.value ELSE before[k]]

\* C1: update with an edit list does not fail in the handler, and hands the
\* store exactly the map of the list's non-falsy entries, each keyed by its
\* key or by its segments joined with a dot.
C1_EditListApplied ==
    (call.op = "update" /\ call.arg.t = "array") =>
        /\ call.error # Throw("TypeError")
        /\ call.sent = unwrapData(Obj(EditsMap(call.arg.items)))

\* C2: add, set and upset called with a write function hand the store the
\* encoding of the data the function returns, never the function; a set that
\* completes leaves exactly that data at id.
C2_FunctionResolved ==
    (call.op \in {"add", "set", "upset"} /\ call.arg.t = "function") =>
        /\ call.sent = unwrapData(call.arg.ret)
        /\ call.sent.t # "function"
        /\ (call.op = "set" /\ call.outcome = "resolved")
                => store[call.id] = call.sent

\* C8 as stated: get(id) resolves to a Document holding the data the completed
\* writes made of id, or to null when id was never written or was removed last.
C8_ReadYourWrites ==
    call.op = "get" =>
        /\ call.outcome = "resolved"
        /\ call.value = IF Live(written, call.id)
                        THEN Doc(Collection, call.id, written[call.id])
                        ELSE Null

\* C8, amended: get(id) resolves to a Document holding the data the completed
\* writes made of id with every undefined in it replaced by null, or to null
\* when id was never written or was removed last.
C8_ReadYourWritesNullified ==
    call.op = "get" =>
        /\ call.outcome = "resolved"
        /\ call.value = IF Live(written, call.id)
                        THEN Doc(Collection, call.id, nullifyData(written[call.id]))
                        ELSE Null

\* a document was added and updated and is read back, its date included,
\* after the other document was removed
C8_Witness ==
    /\ call.op = "get"
    /\ call.value = Doc(Collection, call.id,
                        Obj([k \in {"name", "at"} |->
                                IF k = "name" THEN Text("Bo") ELSE JSDate(1500)]))
    /\ \E id \in DOMAIN written : written[id] = Removed

-----------------------------------------------------------------------------
(* getMany over every store content *)

StoredDatas == {unwrapData(Ann), unwrapData(NoName)}
Stores == UNION {[present -> StoredDatas] : present \in SUBSET Ids}

GetManyInit ==
    /\ store \in Stores
    /\ written = EmptyFields
    /\ call = NoCall
    /\ PathIdle /\ MarshalIdle /\ QueryIdle /\ ListIdle

SpecGetMany == GetManyInit /\ [][GetMany]_vars

StoredDoc(id) == Doc(Collection, id, wrapData(store[id]))

RECURSIVE StoredDocs(_)
StoredDocs(ids) ==
    IF ids = <<>> THEN <<>>
    ELSE (IF Head(ids) \in DOMAIN store THEN <<StoredDoc(Head(ids))>> ELSE <<>>)
            \o StoredDocs(Tail(ids))

Missing(ids) == {i \in 1..Len(ids) : ids[i] \notin DOMAIN store}

\* C6: getMany of a non-empty id list.  Default policy: an error naming the
\* first requested id that is absent, and no result (all documents when none
\* is absent).  'ignore': the documents of the requested ids that are present,
\* in request order.  Callback: one document per requested id in request
\* order, holding the callback's value for a missing id and the decoded
\* stored data for a present one.
C6_MissingPolicies ==
    (call.op = "getMany" /\ call.ids # <<>>) =>
        LET ids == call.ids
            onMissing == onMissingOf(call.arg)
        IN  CASE onMissing = Undefined ->
                    IF Missing(ids) = {}
                    THEN /\ call.outcome = "resolved"
                         /\ call.value = Arr(StoredDocs(ids))
                    ELSE /\ call.outcome = "rejected"
                         /\ call.value = Undefined
                         /\ \E i \in Missing(ids) :
                                /\ \A j \in Missing(ids) : i <= j
                                /\ call.error = MissingDocument(ids[i])
              [] onMissing = Text("ignore") ->
                    /\ call.outcome = "resolved"
                    /\ call.value = Arr(StoredDocs(ids))
              [] OTHER ->
                    /\ call.outcome = "resolved"
                    /\ Len(call.value.items) = Len(ids)
                    /\ \A i \in 1..Len(ids) :
                            call.value.items[i] =
                                IF i \in Missing(ids)
                                THEN Doc(Collection, ids[i], onMissing.map[ids[i]])
                                ELSE StoredDoc(ids[i])

\* the store holds one of two requested documents and the callback makes up
\* the other
C6_Witness ==
    /\ call.op = "getMany"
    /\ DOMAIN store = {<<"4">>}
    /\ call.ids = <<(<<"4">>), (<<"u">>)>>
    /\ onMissingOf(call.arg) = [t |-> "function", map |-> Unknown]
    /\ call.outcome = "resolved"
    /\ Len(call.value.items) = 2
    /\ call.value.items[1] = StoredDoc(<<"4">>)
    /\ call.value.items[2].data = Obj([k \in {"name"} |-> Text("unknown")])

\* C7: getMany of an empty id list resolves to an empty sequence without a
\* read of the store, whatever the policy; getMany of a non-empty list makes
\* exactly one batch read.
C7_RoundTrips ==
    call.op = "getMany" =>
        /\ call.ids = <<>> =>
                /\ call.outcome = "resolved"
                /\ call.value = Arr(<<>>)
                /\ call.trips = 0
        /\ call.ids # <<>> => call.trips = 1

\* the empty list was asked of a store that holds documents, with a callback
C7_Witness ==
    /\ call.op = "getMany"
    /\ call.ids = <<>>
    /\ DOMAIN store = Ids
    /\ onMissingOf(call.arg) = [t |-> "function", map |-> Unknown]
    /\ call.trips = 0

(***************************************************************************)
(* Field naming of the compiled order calls, over SpecQuery                *)
(***************************************************************************)

\* the order directives the helper builds when no direction is given: no
\* argument, or cursors only
Undirected ==
    {order(field, args) : field \in Fields,
                          args \in {a \in OrderArgs : a = <<>> \/ a[1].t # "string"}}

\* C12: for every order directive whose field is not the document-id
\* placeholder, the compiled orderBy uses the field name, in dotted form
\* ('a.b') when the field is a nested path of segments ['a','b'], the same
\* name a where directive on the same field compiles to; the direction is
\* ascending when none is given.
C12_OrderFieldDotted ==
    Compiled =>
        \A i \in 1..Len(queries) :
            (queries[i].type = "order" /\ queries[i].field # docId) =>
                /\ Calls[i].m = "orderBy"
                /\ queries[i].field.t = "string" => Calls[i].field = queries[i].field
                /\ queries[i].field.t = "array" =>
                        Calls[i].field = Text(join(queries[i].field.items, "."))
                /\ Calls[i].field = whereField(queries[i].field)
                /\ queries[i] \in Undirected => Calls[i].method = "asc"

\* the parts of C12 the compilation keeps: a plain field name is passed as
\* it is, and a directive built without a direction is ascending
C12_PlainNameAscending ==
    Compiled =>
        \A i \in 1..Len(queries) :
            (queries[i].type = "order" /\ queries[i].field # docId) =>
                /\ queries[i].field.t = "string" => Calls[i].field = queries[i].field
                /\ queries[i] \in Undirected => Calls[i].method = "asc"

\* an order on the nested path ['a','b'] with no direction, next to a where
\* on the same path, has been compiled
C12_NestedOrder ==
    /\ Compiled
    /\ Len(queries) = 2
    /\ queries[1] = where(Arr(<<Text("a"), Text("b")>>), "==", Text("a"))
    /\ queries[2] = order(Arr(<<Text("a"), Text("b")>>), <<>>)

-----------------------------------------------------------------------------
(* List reads: all() and query(), their fetch and their subscription *)

\* snapshot.docs.map(doc => new Doc(this, doc.id, wrapData(doc.data()))): the
\* documents of a snapshot of the collection, in the order of their ids
IdOrder == <<(<<"4">>), (<<"u">>)>>
snapshotDocs(st) ==
    LET present == SelectSeq(IdOrder, LAMBDA id : id \in DOMAIN st)
    IN  Arr([i \in 1..Len(present) |->
                Doc(Collection, present[i], wrapData(st[present[i]]))])

\* the result object: a fetch not yet started and a subscription not yet
\* asked for, over the read target of its source
SubscriptionPromise(source) == [NoResult EXCEPT !.source = source]

\* all(): the result over the whole collection
all == SubscriptionPromise("all")

\* query(getQueries) without directives: the result over the compiled query
queryList == SubscriptionPromise("query")

\* the subscribe function each source hands to its result: all() registers
\* onSnapshot(snapshot => onResult(...), onError) and returns what onSnapshot
\* returns, the function that removes the listener; query()'s is
\* subscribe() {}, which registers nothing and returns undefined
all_subscribe(n) == [listeners |-> n + 1, off |-> "function"]
query_subscribe(n) == [listeners |-> n, off |-> "undefined"]
subscribe(source, n) ==
    IF source = "all" THEN all_subscribe(n) ELSE query_subscribe(n)

\* the subscription has been asked for and its handle has not been called
Subscribed == result.subscribed /\ ~result.cancelled

ListInit ==
    /\ store \in Stores
    /\ written = EmptyFields
    /\ call = NoCall
    /\ ListIdle
    /\ PathIdle /\ MarshalIdle /\ QueryIdle

Idle == UNCHANGED <<written, call, pathVars, marshalVars, queryVars>>

All ==
    /\ result = NoResult
    /\ result' = all
    /\ UNCHANGED <<store, listeners, deliveries>>
    /\ Idle

QueryList ==
    /\ result = NoResult
    /\ result' = queryList
    /\ UNCHANGED <<store, listeners, deliveries>>
    /\ Idle

\* the result is awaited: get() starts its read of the store
Fetch ==
    /\ result.source # "none"
    /\ result.fetch = "idle"
    /\ result' = [result EXCEPT !.fetch = "pending"]
    /\ UNCHANGED <<store, listeners, deliveries>>
    /\ Idle

\* the read returns its snapshot: the fetch resolves to the decoded list
FetchResolve ==
    /\ result.fetch = "pending"
    /\ result' = [result EXCEPT !.fetch = "resolved",
                                !.value = snapshotDocs(store),
                                !.resolutions = @ + 1]
    /\ UNCHANGED <<store, listeners, deliveries>>
    /\ Idle

\* the read fails: the fetch rejects with the store's error
FetchReject ==
    /\ result.fetch = "pending"
    /\ result' = [result EXCEPT !.fetch = "rejected",
                                !.value = Throw("unavailable")]
    /\ UNCHANGED <<store, listeners, deliveries>>
    /\ Idle

Subscribe ==
    /\ result.source # "none"
    /\ ~result.subscribed
    /\ LET made == subscribe(result.source, listeners)
       IN  /\ listeners' = made.listeners
           /\ result' = [result EXCEPT !.subscribed = TRUE, !.off = made.off]
    /\ UNCHANGED <<store, deliveries>>
    /\ Idle

\* the caller calls the handle subscribe returned, when it is a function
Unsubscribe ==
    /\ Subscribed
    /\ result.off = "function"
    /\ listeners' = listeners - 1
    /\ result' = [result EXCEPT !.cancelled = TRUE]
    /\ UNCHANGED <<store, deliveries>>
    /\ Idle

\* the collection changes: the store calls each registered snapshot listener
\* with the new snapshot
StoreChange ==
    /\ result.source # "none"
    /\ deliveries.changes < MaxChanges
    /\ \E st \in Stores \ {store} :
        /\ store' = st
        /\ deliveries' =
            [deliveries EXCEPT
                !.changes = IF Subscribed THEN @ + 1 ELSE @,
                !.onResult = @ + listeners,
                !.last = IF listeners > 0 THEN snapshotDocs(st) ELSE @]
    /\ UNCHANGED <<result, listeners>>
    /\ Idle

\* the store fails on its listen stream: it calls each registered listener's
\* error callback
StoreFailure ==
    /\ result.source # "none"
    /\ deliveries.failures < MaxFailures
    /\ deliveries' =
            [deliveries EXCEPT
                !.failures = IF Subscribed THEN @ + 1 ELSE @,
                !.onError = @ + listeners]
    /\ UNCHANGED <<store, result, listeners>>
    /\ Idle

ListNext ==
    \/ All \/ QueryList \/ Fetch \/ FetchResolve \/ FetchReject
    \/ Subscribe \/ Unsubscribe \/ StoreChange \/ StoreFailure

SpecList == ListInit /\ [][ListNext]_vars

\* what the claim asks of the result of one list read
DualMode ==
    \* subscribe registers a listener with the store and returns the handle
    \* that removes it
    /\ result.subscribed => result.off = "function"
    /\ Subscribed => listeners = 1
    /\ result.cancelled => listeners = 0
    \* every change made while subscribed was delivered once, as the full
    \* decoded list; every failure went to onError, once
    /\ deliveries.onResult = deliveries.changes
    /\ (Subscribed /\ deliveries.changes > 0) => deliveries.last = snapshotDocs(store)
    /\ deliveries.onError = deliveries.failures
    \* the fetch resolves at most once, to a decoded list, and only when
    \* it was asked for; without a subscription no callback is made
    /\ result.resolutions <= 1
    /\ result.fetch = "resolved" <=> result.resolutions = 1
    /\ result.fetch = "resolved" => result.value \in {snapshotDocs(st) : st \in Stores}
    /\ ~result.subscribed =>
            listeners = 0 /\ deliveries.onResult = 0 /\ deliveries.onError = 0

\* C11: subscribe on the result of all() or query() registers a live
\* listener with the store and returns an unsubscribe handle; until the
\* handle is called every change of the read target delivers the full
\* decoded list to onResult exactly once and store failures go only to
\* onError; a fetch on the same result resolves exactly once, and in any
\* interleaving neither path makes the other fire, fire twice, or stop.
C11_ListSubscription ==
    result.source \in {"all", "query"} => DualMode

\* the same, of the result of all() alone
C11_AllSubscription ==
    result.source = "all" => DualMode

\* a subscription on the result of all(), with a fetch resolved and a change
\* delivered while it was on
C11_AllSubscribed ==
    /\ result.source = "all"
    /\ Subscribed
    /\ result.fetch = "resolved"
    /\ deliveries.changes = 2
    /\ deliveries.failures = 1

\* a subscription on the result of query(), a change made while it was on
C11_QuerySubscribed ==
    /\ result.source = "query"
    /\ Subscribed
    /\ deliveries.changes = 1
    /\ deliveries.onResult = 0

====
